---- MODULE Spec2Model ----
(***************************************************************************)
(* A model of the NOF1 trade poller (src/backend/app.py): the TradePoller  *)
(* cache, its polling cycle (_poll_once), the background loop (_run_loop), *)
(* start()/stop(), snapshot() and trigger_once(), as threads interleaving  *)
(* at the granularity of the lock regions and unlocked reads of the code.  *)
(***************************************************************************)
EXTENDS Integers, Sequences, FiniteSets, TLC

\* ------------------------------------------------------------------ bounds
\* Longest "trades" list the upstream returns.
MaxTrades == 2
\* Last value of the wall clock (utc_now_iso); the clock starts at 1.
MaxTime == 2
\* The cache_limit constructor argument ranges over 0..MaxLimitArg.
MaxLimitArg == 2

\* ------------------------------------------------------------- identities
\* Thread objects start() can create (threading.Thread(target=_run_loop)).
RunnerOrder == <<"R1", "R2">>
Runners == { RunnerOrder[k] : k \in 1..Len(RunnerOrder) }
\* The HTTP worker serving POST /api/trades/poll (trigger_once).
Trigger == "T"
\* Every thread that can execute _poll_once.
Executors == Runners \cup {Trigger}
\* Callers of start() and the caller of stop().
Starters == {"S1", "S2"}
Stopper == "Q"
\* Holders of a snapshot() result: the workers serving GET
\* /api/trades/latest, and the POST worker.
Getters == {"G1", "G2"}
Readers == Getters \cup {Trigger}

\* int(os.getenv("TRADE_CACHE_LIMIT", "50"))
DefaultCacheLimit == 50

\* None for the timestamp fields (str | None), below every clock value.
NoTime == 0
\* None for last_error and for the _thread field.
None == "None"

\* --------------------------------------------------------------- upstream
\* Entries of the upstream "trades" list: dicts carrying "id", "trade_id",
\* both empty, or an entry that is no dict at all.
RawTrades ==
    { [isdict |-> TRUE, id |-> "A", trade_id |-> "", symbol |-> "BTC"],
      [isdict |-> TRUE, id |-> "", trade_id |-> "B", symbol |-> "ETH"],
      [isdict |-> TRUE, id |-> "", trade_id |-> "", symbol |-> "BTC"],
      [isdict |-> FALSE, id |-> "", trade_id |-> "", symbol |-> ""] }

SeqsUpTo(S, n) == UNION { [1..k -> S] : k \in 0..n }

\* The messages of the exceptions a cycle can raise before it publishes.
ErrorMessages == {"Failed to reach", "Invalid JSON", "Unexpected trades payload shape"}

\* What one GET /trades can come to: an exception with one of the messages
\* msgs, or a list of at most n entries out of raws.
ResponsesOf(raws, msgs, n) ==
    { [ok |-> FALSE, msg |-> m, trades |-> << >>] : m \in msgs }
    \cup { [ok |-> TRUE, msg |-> None, trades |-> p] : p \in SeqsUpTo(raws, n) }

Responses == ResponsesOf(RawTrades, ErrorMessages, MaxTrades)

\* ------------------------------------------------------------------ state
VARIABLES
    cache_limit,          \* self.cache_limit
    lock,                 \* self._lock: "free" or the thread holding it
    stop_event,           \* self._stop_event
    thread,               \* self._thread: None or a runner
    created,              \* runners whose Thread object exists, not yet started
    initialized,          \* self._initialized
    known,                \* self._known_trade_ids
    recent,               \* self._recent_trades (a list object)
    new,                  \* self._new_trades (a list object)
    last_started,         \* self._last_poll_started
    last_completed,       \* self._last_poll_completed
    last_error,           \* self._last_error
    now,                  \* the wall clock read by utc_now_iso()
    pc,                   \* where each thread is in its code
    loc,                  \* the locals of each thread inside _poll_once
    snaps,                \* the snapshot() result each reader holds
    alone,                \* history: no other cycle overlapped this one
    epoch,                \* history: the cache as the last finished cycle left it
    req,                  \* api/latest_trades.py: the locals of the running do_GET
    lab,                  \* api/latest_trades.py: a record and what the functions
                          \* applied to it have returned
    start_returned        \* history: start() has returned and stop() has not
                          \* been called since

cache == <<initialized, known, recent, new, last_started, last_completed, last_error>>
vars == <<cache_limit, lock, stop_event, thread, created, initialized, known, recent,
          new, last_started, last_completed, last_error, now, pc, loc, snaps,
          alone, epoch, req, lab, start_returned>>

\* The state of the stateless function (src/api/latest_trades.py).
api == <<req, lab>>


\* ---------------------------------------------------------------- helpers
Min(a, b) == IF a <= b THEN a ELSE b
Max(a, b) == IF a >= b THEN a ELSE b

\* s[:n]
Take(s, n) == SubSeq(s, 1, Min(n, Len(s)))

\* str(trade.get("id") or trade.get("trade_id") or "")
TradeId(trade) == IF trade.id # "" THEN trade.id ELSE trade.trade_id

\* The entries the loop does not skip: dicts with a non-empty id.
Valid(trade) == trade.isdict /\ TradeId(trade) # ""

\* The dict _summarize_trade builds for the n-th entry: a fresh object of the
\* executor c, named by its ref.
Summarize(c, n, trade) ==
    [ref |-> <<c, "summary", n>>, id |-> TradeId(trade), symbol |-> trade.symbol]

\* The indices among the first n entries that the loop does not skip.
RECURSIVE ValidIndices(_, _)
ValidIndices(trades, n) ==
    IF n = 0 THEN << >>
    ELSE LET rest == ValidIndices(trades, n - 1)
         IN  IF Valid(trades[n]) THEN Append(rest, n) ELSE rest

\* summaries and incoming_ids once the loop has handled the first n entries.
Summaries(c, trades, n) ==
    LET idx == ValidIndices(trades, n)
    IN  [k \in 1..Len(idx) |-> Summarize(c, idx[k], trades[idx[k]])]

IncomingIds(trades, n) ==
    LET idx == ValidIndices(trades, n)
    IN  [k \in 1..Len(idx) |-> TradeId(trades[idx[k]])]

\* set(incoming_ids)
IdSet(ids) == { ids[k] : k \in 1..Len(ids) }

\* A list object: its identity and its items.
ListObj(owner, field, items) == [ref |-> <<owner, field>>, items |-> items]

\* What a list holds, identities aside.
Content(list) == [k \in 1..Len(list.items) |-> [id |-> list.items[k].id, symbol |-> list.items[k].symbol]]

\* copy.deepcopy(list): a new list object holding new dict objects.
DeepCopy(list, owner, field) ==
    ListObj(owner, field,
            [k \in 1..Len(list.items) |-> [list.items[k] EXCEPT !.ref = <<owner, field, k>>]])

\* No request is being served; no function has been applied. Beside the
\* locals of do_GET and _collect_open_positions, req keeps what the request
\* has met: the fetches that failed, positions_by_id as the primary source
\* left it, the number of trades line 307 dropped, and the /account-totals
\* body.
NoReq ==
    [pc |-> "idle", limit |-> 0, positions_limit |-> 0, limited_trades |-> << >>,
     positions_by_id |-> << >>, primary |-> << >>,
     fallback_positions |-> << >>, open_positions |-> << >>, errors |-> << >>,
     failed |-> {}, status |-> 0, trades |-> << >>,
     dropped |-> 0, account_payload |-> << >>]
NoLab == [fn |-> "none", arg |-> << >>, outs |-> << >>]

\* The locals of a thread that is not inside _poll_once.
NoLocals ==
    [trades |-> << >>, i |-> 0, new_trades |-> << >>, started_at |-> NoTime,
     completed_at |-> NoTime, exc |-> None]

NoSnap ==
    [taken |-> FALSE, initialized |-> FALSE, last_poll_started |-> NoTime,
     last_poll_completed |-> NoTime, last_error |-> None,
     recent_trades |-> ListObj("none", "recent", << >>),
     new_trades |-> ListObj("none", "new", << >>)]

\* Thread.is_alive(): started and not yet returned from _run_loop.
IsAlive(r) == r \in Runners /\ pc[r] # "off"

\* The executors that are between the start of _poll_once and their return
\* from the cycle.
CyclePcs ==
    {"lock1", "fetch", "scan", "p128", "p129", "p130", "p131", "p132", "p133",
     "h87", "h88", "raise", "done", "snap"}
InCycle(c) == pc[c] \in CyclePcs

\* The six fields a snapshot shows, as the cache holds them.
CacheView ==
    [initialized |-> initialized, last_poll_started |-> last_started,
     last_poll_completed |-> last_completed, last_error |-> last_error,
     recent_trades |-> Content(recent), new_trades |-> Content(new)]

\* ------------------------------------------------------------------- Init
\* TradePoller.__init__ (lines 25-40) with a cache_limit argument out of
\* limits.
InitWith(limits) ==
    /\ cache_limit \in { Max(a, 1) : a \in limits }
    /\ lock = "free"
    /\ stop_event = FALSE
    /\ thread = None
    /\ created = {}
    /\ initialized = FALSE
    /\ known = {}
    /\ recent = ListObj("init", "recent", << >>)
    /\ new = ListObj("init", "new", << >>)
    /\ last_started = NoTime
    /\ last_completed = NoTime
    /\ last_error = None
    /\ now = 1
    /\ pc = [t \in Executors \cup Starters \cup {Stopper} \cup Readers |->
                IF t \in Runners THEN "off" ELSE "idle"]
    /\ loc = [c \in Executors |-> NoLocals]
    /\ snaps = [rd \in Readers |-> NoSnap]
    /\ alone = [c \in Executors |-> TRUE]
    /\ epoch = CacheView
    /\ req = NoReq
    /\ lab = NoLab
    /\ start_returned = FALSE


\* ------------------------------------------------------------ _poll_once
\* Line 95: started_at = utc_now_iso(). The history variable alone records
\* whether another cycle is under way.
PollBegin(c) ==
    /\ pc[c] = "begin"
    /\ pc' = [pc EXCEPT ![c] = "lock1"]
    /\ loc' = [loc EXCEPT ![c] = [NoLocals EXCEPT !.started_at = now]]
    /\ alone' = [o \in Executors |->
                    IF o = c THEN \A x \in Executors \ {c} : ~InCycle(x)
                    ELSE IF InCycle(o) THEN FALSE ELSE alone[o]]
    /\ UNCHANGED <<cache_limit, lock, stop_event, thread, created, cache, now, snaps, epoch, api, start_returned>>

\* SetStarted as it would be if the with-block went on around the fetch.
SetStartedKeepingLock(c) ==
    /\ pc[c] = "lock1"
    /\ lock = "free"
    /\ lock' = c
    /\ last_started' = loc[c].started_at
    /\ pc' = [pc EXCEPT ![c] = "fetch"]
    /\ UNCHANGED <<cache_limit, stop_event, thread, created, initialized, known,
                   recent, new, last_completed, last_error, now, loc, snaps,
                   alone, epoch, api, start_returned>>

\* Lines 96-97: with self._lock: self._last_poll_started = started_at.
SetStarted(c) ==
    /\ pc[c] = "lock1"
    /\ lock = "free"
    /\ last_started' = loc[c].started_at
    /\ pc' = [pc EXCEPT ![c] = "fetch"]
    /\ UNCHANGED <<cache_limit, lock, stop_event, thread, created, initialized, known,
                   recent, new, last_completed, last_error, now, loc, snaps,
                   alone, epoch, api, start_returned>>

\* Lines 99-105: the fetch, json.loads and the shape test, none of them under
\* the lock. An exception leaves _poll_once: into the handler of _run_loop
\* (line 85) or of trigger_once (line 76).
Fetch(c, resp) ==
    /\ pc[c] = "fetch"
    /\ IF resp.ok
       THEN /\ loc' = [loc EXCEPT ![c].trades = resp.trades, ![c].i = 1]
            /\ pc' = [pc EXCEPT ![c] = "scan"]
       ELSE /\ loc' = [loc EXCEPT ![c].exc = resp.msg]
            /\ pc' = [pc EXCEPT ![c] = IF c \in Runners THEN "h87" ELSE "raise"]
    /\ UNCHANGED <<cache_limit, lock, stop_event, thread, created, cache, now, snaps,
                   alone, epoch, api, start_returned>>

\* Scan as it would be with the test of self._initialized left out.
ScanIgnoringInitialized(c) ==
    /\ pc[c] = "scan"
    /\ loc[c].i <= Len(loc[c].trades)
    /\ LET n == loc[c].i
           trade == loc[c].trades[n]
           isNew == Valid(trade) /\ TradeId(trade) \notin known
       IN  loc' = [loc EXCEPT ![c].i = n + 1,
                              ![c].new_trades =
                                  IF isNew THEN Append(@, Summarize(c, n, trade)) ELSE @]
    /\ UNCHANGED <<cache_limit, lock, stop_event, thread, created, cache, now, pc,
                   snaps, alone, epoch, api, start_returned>>

\* Lines 111-121: one iteration of the loop. self._initialized and
\* self._known_trade_ids are read here, without the lock.
Scan(c) ==
    /\ pc[c] = "scan"
    /\ loc[c].i <= Len(loc[c].trades)
    /\ LET n == loc[c].i
           trade == loc[c].trades[n]
           isNew == Valid(trade) /\ initialized /\ TradeId(trade) \notin known
       IN  loc' = [loc EXCEPT ![c].i = n + 1,
                              ![c].new_trades =
                                  IF isNew THEN Append(@, Summarize(c, n, trade)) ELSE @]
    /\ UNCHANGED <<cache_limit, lock, stop_event, thread, created, cache, now, pc,
                   snaps,  alone, epoch, api, start_returned>>

\* Lines 123-126: the loop is over; completed_at = utc_now_iso().
Stamp(c) ==
    /\ pc[c] = "scan"
    /\ loc[c].i > Len(loc[c].trades)
    /\ loc' = [loc EXCEPT ![c].completed_at = now]
    /\ pc' = [pc EXCEPT ![c] = "p128"]
    /\ UNCHANGED <<cache_limit, lock, stop_event, thread, created, cache, now, snaps,
                   alone, epoch, api, start_returned>>

\* Trimmed as it would be without the cut.
TrimmedWhole(c) == Summaries(c, loc[c].trades, Len(loc[c].trades))

\* trimmed = summaries[: self.cache_limit]
Trimmed(c) ==
    Take(Summaries(c, loc[c].trades, Len(loc[c].trades)), cache_limit)

\* limited_new_trades = new_trades[: self.cache_limit]
LimitedNewTrades(c) == Take(loc[c].new_trades, cache_limit)

\* Lines 127-128: the lock is taken; self._recent_trades = trimmed.
Publish128(c) ==
    /\ pc[c] = "p128"
    /\ lock = "free"
    /\ lock' = c
    /\ recent' = ListObj(c, "trimmed", Trimmed(c))
    /\ pc' = [pc EXCEPT ![c] = "p129"]
    /\ UNCHANGED <<cache_limit, stop_event, thread, created, initialized, known, new,
                   last_started, last_completed, last_error, now, loc, snaps,
                   alone, epoch, api, start_returned>>

\* Line 129: self._new_trades = limited_new_trades.
Publish129(c) ==
    /\ pc[c] = "p129"
    /\ new' = ListObj(c, "limited_new_trades", LimitedNewTrades(c))
    /\ pc' = [pc EXCEPT ![c] = "p130"]
    /\ UNCHANGED <<cache_limit, lock, stop_event, thread, created, initialized, known,
                   recent, last_started, last_completed, last_error, now, loc, snaps,
                   alone, epoch, api, start_returned>>

\* Line 130: self._known_trade_ids = set(incoming_ids).
Publish130(c) ==
    /\ pc[c] = "p130"
    /\ known' = IdSet(IncomingIds(loc[c].trades, Len(loc[c].trades)))
    /\ pc' = [pc EXCEPT ![c] = "p131"]
    /\ UNCHANGED <<cache_limit, lock, stop_event, thread, created, initialized, recent,
                   new, last_started, last_completed, last_error, now, loc, snaps,
                   alone, epoch, api, start_returned>>

\* Publish131 as it would be if the flag followed the cycle's data.
Publish131OnlyWithTrades(c) ==
    /\ pc[c] = "p131"
    /\ initialized' = (recent.items # << >>)
    /\ pc' = [pc EXCEPT ![c] = "p132"]
    /\ UNCHANGED <<cache_limit, lock, stop_event, thread, created, known, recent, new,
                   last_started, last_completed, last_error, now, loc, snaps,
                   alone, epoch, api, start_returned>>

\* Line 131: self._initialized = True.
Publish131(c) ==
    /\ pc[c] = "p131"
    /\ initialized' = TRUE
    /\ pc' = [pc EXCEPT ![c] = "p132"]
    /\ UNCHANGED <<cache_limit, lock, stop_event, thread, created, known, recent, new,
                   last_started, last_completed, last_error, now, loc, snaps,
                   alone, epoch, api, start_returned>>

\* Line 132: self._last_poll_completed = completed_at.
Publish132(c) ==
    /\ pc[c] = "p132"
    /\ last_completed' = loc[c].completed_at
    /\ pc' = [pc EXCEPT ![c] = "p133"]
    /\ UNCHANGED <<cache_limit, lock, stop_event, thread, created, initialized, known,
                   recent, new, last_started, last_error, now, loc, snaps,  alone,
                   epoch, api, start_returned>>

\* Line 133: self._last_error = None; the lock is released and _poll_once
\* returns, to _run_loop (line 89) or to trigger_once (line 78).
Publish133(c) ==
    /\ pc[c] = "p133"
    /\ last_error' = None
    /\ lock' = "free"
    /\ pc' = [pc EXCEPT ![c] = IF c \in Runners THEN "done" ELSE "snap"]
    /\ epoch' = [CacheView EXCEPT !.last_error = None]
    /\ UNCHANGED <<cache_limit, stop_event, thread, created, initialized, known, recent,
                   new, last_started, last_completed, now, loc, snaps,  alone, api, start_returned>>


\* LoopTest as it would be with "while True".
LoopTestIgnoringStop(r) ==
    /\ pc[r] = "loop"
    /\ pc' = [pc EXCEPT ![r] = "begin"]
    /\ UNCHANGED <<cache_limit, lock, stop_event, thread, created, cache, now, loc,
                   snaps, alone, epoch, api, start_returned>>

\* -------------------------------------------------------------- _run_loop
\* Line 81: while not self._stop_event.is_set(). A set event ends the thread.
LoopTest(r) ==
    /\ pc[r] = "loop"
    /\ pc' = [pc EXCEPT ![r] = IF stop_event THEN "off" ELSE "begin"]
    /\ UNCHANGED <<cache_limit, lock, stop_event, thread, created, cache, now, loc,
                   snaps,  alone, epoch, api, start_returned>>

\* Handler87 as it would be if the handler also dropped the deltas.
Handler87ClearingNew(r) ==
    /\ pc[r] = "h87"
    /\ lock = "free"
    /\ lock' = r
    /\ last_error' = loc[r].exc
    /\ new' = ListObj(r, "cleared", << >>)
    /\ pc' = [pc EXCEPT ![r] = "h88"]
    /\ UNCHANGED <<cache_limit, stop_event, thread, created, initialized, known, recent,
                   last_started, last_completed, now, loc, snaps, alone, epoch, api, start_returned>>

\* Lines 85-87: except Exception: the lock is taken; self._last_error = str(exc).
Handler87(r) ==
    /\ pc[r] = "h87"
    /\ lock = "free"
    /\ lock' = r
    /\ last_error' = loc[r].exc
    /\ pc' = [pc EXCEPT ![r] = "h88"]
    /\ UNCHANGED <<cache_limit, stop_event, thread, created, initialized, known, recent,
                   new, last_started, last_completed, now, loc, snaps,  alone,
                   epoch, api, start_returned>>

\* Handler88 as it would be if the exception ended the thread.
Handler88Terminating(r) ==
    /\ pc[r] = "h88"
    /\ last_completed' = now
    /\ lock' = "free"
    /\ pc' = [pc EXCEPT ![r] = "off"]
    /\ epoch' = [CacheView EXCEPT !.last_poll_completed = now]
    /\ UNCHANGED <<cache_limit, stop_event, thread, created, initialized, known, recent,
                   new, last_started, last_error, now, loc, snaps, alone, api, start_returned>>

\* Handler88 as it would be without the assignment of line 88.
Handler88WithoutCompleted(r) ==
    /\ pc[r] = "h88"
    /\ lock' = "free"
    /\ pc' = [pc EXCEPT ![r] = "done"]
    /\ epoch' = CacheView
    /\ UNCHANGED <<cache_limit, stop_event, thread, created, initialized, known, recent,
                   new, last_started, last_completed, last_error, now, loc, snaps, alone, api, start_returned>>

\* Line 88: self._last_poll_completed = utc_now_iso(); the lock is released.
Handler88(r) ==
    /\ pc[r] = "h88"
    /\ last_completed' = now
    /\ lock' = "free"
    /\ pc' = [pc EXCEPT ![r] = "done"]
    /\ epoch' = [CacheView EXCEPT !.last_poll_completed = now]
    /\ UNCHANGED <<cache_limit, stop_event, thread, created, initialized, known, recent,
                   new, last_started, last_error, now, loc, snaps,  alone, api, start_returned>>

\* Lines 89-90: the cycle is over; elapsed and wait_seconds are computed.
Elapsed(r) ==
    /\ pc[r] = "done"
    /\ pc' = [pc EXCEPT ![r] = "wait"]
    /\ loc' = [loc EXCEPT ![r] = NoLocals]
    /\ alone' = [alone EXCEPT ![r] = TRUE]
    /\ UNCHANGED <<cache_limit, lock, stop_event, thread, created, cache, now, snaps,
                   epoch, api, start_returned>>

\* Lines 91-92: self._stop_event.wait(wait_seconds) returns True as soon as
\* the event is set (break: the thread ends), False when the time is up.
Wait(r) ==
    /\ pc[r] = "wait"
    /\ pc' = [pc EXCEPT ![r] = IF stop_event THEN "off" ELSE "loop"]
    /\ UNCHANGED <<cache_limit, lock, stop_event, thread, created, cache, now, loc,
                   snaps,  alone, epoch, api, start_returned>>

\* Snapshot as it would be with list(...) in place of copy.deepcopy(...):
\* new lists holding the cache's own dicts.
SnapshotSharingDicts(rd) ==
    [taken |-> TRUE, initialized |-> initialized, last_poll_started |-> last_started,
     last_poll_completed |-> last_completed, last_error |-> last_error,
     recent_trades |-> ListObj(rd, "recent", recent.items),
     new_trades |-> ListObj(rd, "new", new.items)]

\* --------------------------------------------------------------- snapshot
\* Lines 63-71: the dict snapshot() returns to the reader rd. The constant
\* poll_interval_seconds is left out.
Snapshot(rd) ==
    [taken |-> TRUE, initialized |-> initialized, last_poll_started |-> last_started,
     last_poll_completed |-> last_completed, last_error |-> last_error,
     recent_trades |-> DeepCopy(recent, rd, "recent"),
     new_trades |-> DeepCopy(new, rd, "new")]

\* SnapshotCall as it would be without the with-block.
SnapshotCallUnlocked(rd) ==
    snaps' = [snaps EXCEPT ![rd] = Snapshot(rd)]

\* Lines 61-71: snapshot(), the whole of it under the lock.
SnapshotCall(rd) ==
    /\ lock = "free"
    /\ snaps' = [snaps EXCEPT ![rd] = Snapshot(rd)]

\* Lines 182-184: GET /api/trades/latest takes a snapshot.
GetLatest(rd) ==
    /\ rd \in Getters
    /\ pc[rd] = "idle"
    /\ SnapshotCall(rd)
    /\ pc' = [pc EXCEPT ![rd] = "respond"]
    /\ UNCHANGED <<cache_limit, lock, stop_event, thread, created, cache, now, loc,
                   alone, epoch, api, start_returned>>

\* Lines 185, 190: the handler sends JSONResponse(snapshot) and is done with
\* the snapshot.
Respond(rd) ==
    /\ pc[rd] = "respond"
    /\ pc' = [pc EXCEPT ![rd] = "idle"]
    /\ snaps' = [snaps EXCEPT ![rd] = NoSnap]
    /\ UNCHANGED <<cache_limit, lock, stop_event, thread, created, cache, now, loc,
                   alone, epoch, api, start_returned>>

\* ----------------------------------------------------------- trigger_once
\* Lines 187-189, 73-75: POST /api/trades/poll calls trigger_once, which
\* calls _poll_once on the request's thread.
TriggerCall ==
    /\ pc[Trigger] = "idle"
    /\ pc' = [pc EXCEPT ![Trigger] = "begin"]
    /\ UNCHANGED <<cache_limit, lock, stop_event, thread, created, cache, now, loc,
                   snaps,  alone, epoch, api, start_returned>>

\* Lines 76-77: except Exception: raise HTTPException(502). Nothing of the
\* cache is written.
TriggerRaise ==
    /\ pc[Trigger] = "raise"
    /\ pc' = [pc EXCEPT ![Trigger] = "idle"]
    /\ loc' = [loc EXCEPT ![Trigger] = NoLocals]
    /\ alone' = [alone EXCEPT ![Trigger] = TRUE]
    /\ UNCHANGED <<cache_limit, lock, stop_event, thread, created, cache, now, snaps,
                   epoch, api, start_returned>>

\* Line 78: return self.snapshot().
TriggerReturn ==
    /\ pc[Trigger] = "snap"
    /\ SnapshotCall(Trigger)
    /\ pc' = [pc EXCEPT ![Trigger] = "respond"]
    /\ loc' = [loc EXCEPT ![Trigger] = NoLocals]
    /\ alone' = [alone EXCEPT ![Trigger] = TRUE]
    /\ UNCHANGED <<cache_limit, lock, stop_event, thread, created, cache, now, epoch, api, start_returned>>

\* ------------------------------------------------------ callers' mutation
\* The dict of ref r, wherever a list holds it, gets a field overwritten.
PokeList(list, r) ==
    [list EXCEPT !.items = [k \in 1..Len(list.items) |->
        IF list.items[k].ref = r THEN [list.items[k] EXCEPT !.symbol = "EDITED"]
        ELSE list.items[k]]]

\* The list object of ref lr is emptied (list.clear()).
ClearList(list, lr) == IF list.ref = lr THEN [list EXCEPT !.items = << >>] ELSE list

PokeSnap(sn, r) ==
    [sn EXCEPT !.recent_trades = PokeList(@, r), !.new_trades = PokeList(@, r)]

ClearSnap(sn, lr) ==
    [sn EXCEPT !.recent_trades = ClearList(@, lr), !.new_trades = ClearList(@, lr)]

\* The lists a snapshot hands to its caller.
SnapLists(sn) == {sn.recent_trades, sn.new_trades}

\* A caller overwrites a field of a dict of its snapshot: every holder of
\* that dict object sees it.
CallerEditsDict(rd) ==
    /\ snaps[rd].taken
    /\ \E l \in SnapLists(snaps[rd]) : \E k \in 1..Len(l.items) :
          /\ l.items[k].symbol # "EDITED"
          /\ recent' = PokeList(recent, l.items[k].ref)
          /\ new' = PokeList(new, l.items[k].ref)
          /\ snaps' = [x \in Readers |-> PokeSnap(snaps[x], l.items[k].ref)]
    /\ UNCHANGED <<cache_limit, lock, stop_event, thread, created, initialized, known,
                   last_started, last_completed, last_error, now, pc, loc,  alone,
                   epoch, api, start_returned>>

\* A caller empties a list of its snapshot: every holder of that list
\* object sees it.
CallerClearsList(rd) ==
    /\ snaps[rd].taken
    /\ \E l \in SnapLists(snaps[rd]) :
          /\ l.items # << >>
          /\ recent' = ClearList(recent, l.ref)
          /\ new' = ClearList(new, l.ref)
          /\ snaps' = [x \in Readers |-> ClearSnap(snaps[x], l.ref)]
    /\ UNCHANGED <<cache_limit, lock, stop_event, thread, created, initialized, known,
                   last_started, last_completed, last_error, now, pc, loc,  alone,
                   epoch, api, start_returned>>

\* ------------------------------------------------------------ start, stop
\* The Thread object start() makes: runners are numbered as they are made.
FreeRunners == { r \in Runners : pc[r] = "off" /\ r \notin created }
NewRunner ==
    RunnerOrder[CHOOSE k \in 1..Len(RunnerOrder) :
                    /\ RunnerOrder[k] \in FreeRunners
                    /\ \A j \in 1..(k - 1) : RunnerOrder[j] \notin FreeRunners]

\* Lines 50-51: if self._thread and self._thread.is_alive(): return.
StartCheck(s) ==
    /\ pc[s] = "idle"
    /\ pc' = [pc EXCEPT ![s] = IF thread # None /\ IsAlive(thread) THEN "idle" ELSE "s52"]
    /\ start_returned' = IF thread # None /\ IsAlive(thread) THEN TRUE ELSE start_returned
    /\ UNCHANGED <<cache_limit, lock, stop_event, thread, created, cache, now, loc,
                   snaps,  alone, epoch, api>>

\* Line 52: self._stop_event.clear().
StartClear(s) ==
    /\ pc[s] = "s52"
    /\ stop_event' = FALSE
    /\ pc' = [pc EXCEPT ![s] = "s53"]
    /\ UNCHANGED <<cache_limit, lock, thread, created, cache, now, loc, snaps,
                   alone, epoch, api, start_returned>>

\* Line 53: self._thread = threading.Thread(...). A Thread object made
\* earlier and never started is referenced by nothing any more.
StartCreate(s) ==
    /\ pc[s] = "s53"
    /\ FreeRunners # {}
    /\ thread' = NewRunner
    /\ created' = {NewRunner}
    /\ pc' = [pc EXCEPT ![s] = "s54"]
    /\ UNCHANGED <<cache_limit, lock, stop_event, cache, now, loc, snaps,  alone,
                   epoch, api, start_returned>>

\* Line 54: self._thread.start(), on whatever self._thread is by now; a
\* thread already started raises RuntimeError and nothing is started.
StartThread(s) ==
    /\ pc[s] = "s54"
    /\ IF thread \in created
       THEN /\ pc' = [pc EXCEPT ![s] = "idle", ![thread] = "loop"]
            /\ created' = created \ {thread}
            /\ start_returned' = TRUE
       ELSE /\ pc' = [pc EXCEPT ![s] = "idle"]
            /\ UNCHANGED <<created, start_returned>>
    /\ UNCHANGED <<cache_limit, lock, stop_event, thread, cache, now, loc, snaps,
                   alone, epoch, api>>

\* Line 57: self._stop_event.set().
StopSet ==
    /\ pc[Stopper] = "idle"
    /\ stop_event' = TRUE
    /\ pc' = [pc EXCEPT ![Stopper] = "q58"]
    /\ start_returned' = FALSE
    /\ UNCHANGED <<cache_limit, lock, thread, created, cache, now, loc, snaps,
                   alone, epoch, api>>

\* Lines 58-59: self._thread.join(timeout=5) returns when the thread has
\* ended or when the five seconds are over, whichever comes first.
StopJoin ==
    /\ pc[Stopper] = "q58"
    /\ pc' = [pc EXCEPT ![Stopper] = "idle"]
    /\ UNCHANGED <<cache_limit, lock, stop_event, thread, created, cache, now, loc,
                   snaps,  alone, epoch, api, start_returned>>

\* ------------------------------------------------------------------ clock
Tick ==
    /\ now < MaxTime
    /\ now' = now + 1
    /\ UNCHANGED <<cache_limit, lock, stop_event, thread, created, cache, pc, loc,
                   snaps,  alone, epoch, api, start_returned>>

\* --------------------------------------------------------- specifications
\* The poller as create_app builds it with the default TRADE_CACHE_LIMIT.
Init == InitWith({DefaultCacheLimit})

\* One cycle step of the executor c, the upstream answering from resps.
Cycle(c, resps) ==
    \/ PollBegin(c)
    \/ SetStarted(c)
    \/ \E resp \in resps : Fetch(c, resp)
    \/ Scan(c)
    \/ Stamp(c)
    \/ Publish128(c)
    \/ Publish129(c)
    \/ Publish130(c)
    \/ Publish131(c)
    \/ Publish132(c)
    \/ Publish133(c)

RunLoop(r) ==
    \/ LoopTest(r)
    \/ Handler87(r)
    \/ Handler88(r)
    \/ Elapsed(r)
    \/ Wait(r)

Start(s) ==
    \/ StartCheck(s)
    \/ StartClear(s)
    \/ StartCreate(s)
    \/ StartThread(s)

TriggerOnce ==
    \/ TriggerCall
    \/ TriggerRaise
    \/ TriggerReturn

\* What the upstream answers where the cycles' interleaving, not their data,
\* is examined: two of the failures, the empty list and a list of one trade.
ServiceResponses ==
    ResponsesOf({ t \in RawTrades : t.id = "A" }, {"Failed to reach", "Invalid JSON"}, 1)

\* The service as create_app runs it: one start() at startup, the background
\* runner, and POST /api/trades/poll requests at any time.
Next ==
    \/ Start("S1")
    \/ \E r \in Runners : RunLoop(r)
    \/ \E c \in Executors : Cycle(c, ServiceResponses)
    \/ TriggerOnce
    \/ Respond(Trigger)
    \/ Tick

Spec == Init /\ [][Next]_vars

\* The background runner alone, for every cache_limit and every upstream
\* answer; the clock stands still, the cycle's data does not depend on it.
NextLoop ==
    \/ Start("S1")
    \/ \E r \in Runners : RunLoop(r)
    \/ \E r \in Runners : Cycle(r, Responses)

SpecLoop == InitWith(0..MaxLimitArg) /\ [][NextLoop]_vars

\* The background runner and GET /api/trades/latest requests at any time.
NextRead ==
    \/ Start("S1")
    \/ \E r \in Runners : RunLoop(r)
    \/ \E r \in Runners : Cycle(r, ServiceResponses)
    \/ GetLatest("G1")
    \/ Respond("G1")
    \/ Tick

SpecRead == Init /\ [][NextRead]_vars


\* start() and stop() called at any time by concurrent callers, the runners
\* they make, and an upstream that fails, answers an empty list or one trade.
LifeResponses == ResponsesOf({ t \in RawTrades : t.id = "A" }, {"Failed to reach"}, 1)

NextLife ==
    \/ \E s \in Starters : Start(s)
    \/ StopSet
    \/ StopJoin
    \/ \E r \in Runners : RunLoop(r)
    \/ \E r \in Runners : Cycle(r, LifeResponses)

SpecLife == Init /\ [][NextLife]_vars

\* One thread calling start() and one calling stop(), any number of times
\* over and in any interleaving with each other: no two start() calls overlap.
NextStop ==
    \/ Start("S1")
    \/ StopSet
    \/ StopJoin
    \/ \E r \in Runners : RunLoop(r)
    \/ \E r \in Runners : Cycle(r, LifeResponses)

SpecStop == Init /\ [][NextStop]_vars

\* The same, every started runner being scheduled again and again and every
\* fetch returning (urlopen has a timeout).
SpecStopFair ==
    SpecStop /\ \A r \in Runners : WF_vars(RunLoop(r) \/ Cycle(r, LifeResponses))

\* One caller that calls start() and stop() one after the other, any number
\* of times: no call begins before the last one has returned. Every started
\* runner is scheduled again and again and every fetch returns.
CallerStart == pc[Stopper] = "idle" /\ Start("S1")
CallerStop == pc["S1"] = "idle" /\ StopSet
NextCalls ==
    \/ CallerStart
    \/ CallerStop
    \/ StopJoin
    \/ \E r \in Runners : RunLoop(r)
    \/ \E r \in Runners : Cycle(r, LifeResponses)

SpecCalls ==
    /\ Init /\ [][NextCalls]_vars
    /\ \A r \in Runners : WF_vars(RunLoop(r) \/ Cycle(r, LifeResponses))

\* The background runner, two GET workers, and callers that modify the
\* snapshots they were given.
NextSnap ==
    \/ Start("S1")
    \/ \E r \in Runners : RunLoop(r)
    \/ \E r \in Runners : Cycle(r, LifeResponses)
    \/ \E rd \in Getters : GetLatest(rd)
    \/ \E rd \in Getters : Respond(rd)
    \/ \E rd \in Getters : CallerEditsDict(rd)
    \/ \E rd \in Getters : CallerClearsList(rd)

SpecSnap == Init /\ [][NextSnap]_vars

\* ======================================================================
\* The stateless function (src/api/latest_trades.py).
\* ======================================================================

\* ---------------------------------------------------------------- strings
\* A str is a sequence of characters. The characters that occur, in the
\* order of their code points, which is the order str comparison uses.
Alphabet ==
    <<" ", "+", "-", ".", "0", "1", "2", "3", "4", "5", "6", "7", "8", "9", ":",
      "A", "B", "C", "E", "H", "N", "P", "T", "Z", "e", "m", "n", "o", "x">>
Ord(c) == CHOOSE k \in 1..Len(Alphabet) : Alphabet[k] = c
Digits == {"0", "1", "2", "3", "4", "5", "6", "7", "8", "9"}
DigitValue(c) == Ord(c) - Ord("0")
DigitChar(d) == Alphabet[Ord("0") + d]

\* a < b for two strs.
StrLessAt(a, b, diff) ==
    IF diff = {} THEN Len(a) < Len(b)
    ELSE Ord(a[CHOOSE x \in diff : \A y \in diff : x <= y])
             < Ord(b[CHOOSE x \in diff : \A y \in diff : x <= y])
StrLess(a, b) == StrLessAt(a, b, { k \in 1..Min(Len(a), Len(b)) : a[k] # b[k] })

\* JSON values: null, a number (an integer v = hi * 1000 + lo, kept in two
\* parts as 10^12 is more than one machine integer holds), or a str.
NoneV == [t |-> "none", s |-> << >>, hi |-> 0, lo |-> 0]
Str(s) == [t |-> "str", s |-> s, hi |-> 0, lo |-> 0]
Num(hi, lo) == [t |-> "num", s |-> << >>, hi |-> hi, lo |-> lo]

\* bool(value) as the or-chains use it: None, "" and 0 are false.
Truthy(v) ==
    \/ v.t = "str" /\ v.s # << >>
    \/ v.t = "num" /\ (v.hi # 0 \/ v.lo # 0)

\* a or b
Or(a, b) == IF Truthy(a) THEN a ELSE b

\* The decimal digits of n, w of them. Powers of ten are taken step by step.
RECURSIVE Pow10(_)
Pow10(k) == IF k = 0 THEN 1 ELSE 10 * Pow10(k - 1)
Pad(n, w) == [k \in 1..w |-> DigitChar((n \div Pow10(w - k)) % 10)]

\* The decimal digits of n without leading zeros: str(n) for n >= 0.
RECURSIVE Decimal(_)
Decimal(n) == IF n < 10 THEN <<DigitChar(n)>> ELSE Decimal(n \div 10) \o <<DigitChar(n % 10)>>

\* str(value) inside an f-string or str(): "None" for None; an integer
\* prints its digits.
ToStr(v) ==
    CASE v.t = "none" -> <<"N", "o", "n", "e">>
      [] v.t = "str" -> v.s
      [] v.t = "num" -> IF v.hi = 0 THEN Decimal(v.lo) ELSE Decimal(v.hi) \o Pad(v.lo, 3)

\* ------------------------------------------------------------------- time
\* The civil date of the day number z (days since 1970-01-01).
CivilRecord(y, m, d) == [year |-> y + (IF m <= 2 THEN 1 ELSE 0), month |-> m, day |-> d]
CivilFromMp(y, doy, mp) ==
    CivilRecord(y, IF mp < 10 THEN mp + 3 ELSE mp - 9, doy - (153 * mp + 2) \div 5 + 1)
CivilFromDoy(y, doy) == CivilFromMp(y, doy, (5 * doy + 2) \div 153)
CivilFromYoe(era, doe, yoe) ==
    CivilFromDoy(yoe + era * 400, doe - (365 * yoe + yoe \div 4 - yoe \div 100))
CivilFromDoe(era, doe) ==
    CivilFromYoe(era, doe, (doe - doe \div 1460 + doe \div 36524 - doe \div 146096) \div 365)
CivilFromDays(z) == CivilFromDoe((z + 719468) \div 146097, (z + 719468) % 146097)

\* The day number of a civil date.
DaysFromYoe(era, yoe, doy) ==
    era * 146097 + (yoe * 365 + yoe \div 4 - yoe \div 100 + doy) - 719468
DaysFromYear(y, m, d) ==
    DaysFromYoe(y \div 400, y % 400,
                (153 * (IF m > 2 THEN m - 3 ELSE m + 9) + 2) \div 5 + d - 1)
DaysFromCivil(y, m, d) == DaysFromYear(IF m <= 2 THEN y - 1 ELSE y, m, d)

\* The last day datetime can hold: 9999-12-31.
MaxDay == 2932896

\* dt.isoformat().replace("+00:00", "Z") for the UTC datetime of day number
\* days, second-of-day sod and micro microseconds.
IsoFormatCivil(c, sod, micro) ==
    Pad(c.year, 4) \o <<"-">> \o Pad(c.month, 2) \o <<"-">> \o Pad(c.day, 2)
    \o <<"T">> \o Pad(sod \div 3600, 2) \o <<":">> \o Pad((sod \div 60) % 60, 2)
    \o <<":">> \o Pad(sod % 60, 2)
    \o (IF micro = 0 THEN << >> ELSE <<".">> \o Pad(micro, 6))
    \o <<"Z">>
IsoFormat(days, sod, micro) == IsoFormatCivil(CivilFromDays(days), sod, micro)

\* What a call returns: a value, or the exception it raises.
Returned(v) == [raised |-> FALSE, value |-> v]
Raised == [raised |-> TRUE, value |-> NoneV]

\* Lines 96-97: datetime.fromtimestamp(epoch_seconds, tz=utc) for the
\* epoch second hi * 1000 + lo + micro / 10^6: ValueError beyond year 9999.
\* The day is found without forming the product (432000 s = 5 days).
FromDaySecond(days, sod, micro) ==
    IF days > MaxDay THEN Raised ELSE Returned(Str(IsoFormat(days, sod, micro)))
FromRest(hi, rest, micro) ==
    FromDaySecond((hi \div 432) * 5 + rest \div 86400, rest % 86400, micro)
FromTimestamp(hi, lo, micro) == FromRest(hi, (hi % 432) * 1000 + lo, micro)

\* ---------------------------------------------------------- _ensure_iso8601
\* 10^12 in thousands: a number hi * 1000 + lo is above 10^12 when hi is
\* above this, or equal to it with lo above 0.
MilliThreshold == 1000000000

\* EpochToIso as it would be without the division of line 94.
EpochToIsoAlwaysSeconds(hi, lo) == FromTimestamp(hi, lo, 0)

\* Lines 93-97: a number above 10^12 is divided by 1000.0 (its thousands
\* are the seconds, the rest the milliseconds); then fromtimestamp and
\* isoformat.
EpochToIso(hi, lo) ==
    IF hi > MilliThreshold \/ (hi = MilliThreshold /\ lo > 0)
    THEN FromTimestamp(hi \div 1000, hi % 1000, lo * 1000)
    ELSE FromTimestamp(hi, lo, 0)

\* value.strip(), for the blanks that occur.
RECURSIVE Strip(_)
Strip(s) ==
    IF s = << >> THEN s
    ELSE IF Head(s) = " " THEN Strip(Tail(s))
    ELSE IF s[Len(s)] = " " THEN Strip(SubSeq(s, 1, Len(s) - 1))
    ELSE s

\* float(candidate) succeeds on a string of digits (line 78); its value.
IsNumeric(s) == s # << >> /\ \A k \in 1..Len(s) : s[k] \in Digits
RECURSIVE DecimalValue(_)
DecimalValue(s) ==
    IF s = << >> THEN 0
    ELSE DecimalValue(SubSeq(s, 1, Len(s) - 1)) * 10 + DigitValue(s[Len(s)])
ParseNumber(s) ==
    IF Len(s) <= 3 THEN Num(0, DecimalValue(s))
    ELSE Num(DecimalValue(SubSeq(s, 1, Len(s) - 3)),
             DecimalValue(SubSeq(s, Len(s) - 2, Len(s))))
EpochOfNumber(n) == EpochToIso(n.hi, n.lo)

\* Line 80: candidate.replace("Z", "+00:00").
RECURSIVE ReplaceZ(_)
ReplaceZ(s) ==
    IF s = << >> THEN s
    ELSE (IF Head(s) = "Z" THEN <<"+", "0", "0", ":", "0", "0">> ELSE <<Head(s)>>)
         \o ReplaceZ(Tail(s))

\* Line 81: normalized.replace(" ", "T", 1).
RECURSIVE ReplaceFirstBlank(_)
ReplaceFirstBlank(s) ==
    IF s = << >> THEN s
    ELSE IF Head(s) = " " THEN <<"T">> \o Tail(s)
    ELSE <<Head(s)>> \o ReplaceFirstBlank(Tail(s))

\* The days of a month.
DaysInMonth(y, m) ==
    IF m = 2 THEN (IF (y % 4 = 0 /\ y % 100 # 0) \/ y % 400 = 0 THEN 29 ELSE 28)
    ELSE IF m \in {4, 6, 9, 11} THEN 30 ELSE 31

\* Line 83: datetime.fromisoformat accepts YYYY-MM-DDTHH:MM:SS with or
\* without an offset +HH:MM or -HH:MM, the forms the inputs here take.
DigitsAt(s, a, b) == \A k \in a..b : s[k] \in Digits
ValueAt(s, a, b) == DecimalValue(SubSeq(s, a, b))
IsIsoShape(s) ==
    /\ Len(s) \in {19, 25}
    /\ DigitsAt(s, 1, 4) /\ s[5] = "-" /\ DigitsAt(s, 6, 7) /\ s[8] = "-"
    /\ DigitsAt(s, 9, 10) /\ s[11] = "T" /\ DigitsAt(s, 12, 13) /\ s[14] = ":"
    /\ DigitsAt(s, 15, 16) /\ s[17] = ":" /\ DigitsAt(s, 18, 19)
    /\ Len(s) = 25 =>
          (s[20] \in {"+", "-"} /\ DigitsAt(s, 21, 22) /\ s[23] = ":" /\ DigitsAt(s, 24, 25))
IsIsoValue(s) ==
    /\ IsIsoShape(s)
    /\ ValueAt(s, 1, 4) >= 1
    /\ ValueAt(s, 6, 7) \in 1..12
    /\ ValueAt(s, 9, 10) \in 1..DaysInMonth(ValueAt(s, 1, 4), ValueAt(s, 6, 7))
    /\ ValueAt(s, 12, 13) <= 23 /\ ValueAt(s, 15, 16) <= 59 /\ ValueAt(s, 18, 19) <= 59
    /\ Len(s) = 25 => (ValueAt(s, 21, 22) <= 23 /\ ValueAt(s, 24, 25) <= 59)

\* Lines 83-86: the parsed datetime, taken as UTC when it has no offset,
\* moved to UTC and formatted.
OffsetOf(s) ==
    IF Len(s) = 19 THEN 0
    ELSE (IF s[20] = "-" THEN -1 ELSE 1)
         * (ValueAt(s, 21, 22) * 3600 + ValueAt(s, 24, 25) * 60)
SecondOfDay(s) == ValueAt(s, 12, 13) * 3600 + ValueAt(s, 15, 16) * 60 + ValueAt(s, 18, 19)
UtcOf(days, tot) == IsoFormat(days + tot \div 86400, tot % 86400, 0)
IsoToUtc(s) ==
    UtcOf(DaysFromCivil(ValueAt(s, 1, 4), ValueAt(s, 6, 7), ValueAt(s, 9, 10)),
          SecondOfDay(s) - OffsetOf(s))

\* Lines 63-97: _ensure_iso8601(value).
EnsureText(candidate, normalized) ==
    IF candidate = << >> THEN Returned(NoneV)
    ELSE IF IsNumeric(candidate) THEN EpochOfNumber(ParseNumber(candidate))
    ELSE IF IsIsoValue(normalized) THEN Returned(Str(IsoToUtc(normalized)))
    ELSE Returned(Str(candidate))
EnsureIso8601(value) ==
    CASE value.t = "none" -> Returned(NoneV)
      [] value.t = "num" -> EpochToIso(value.hi, value.lo)
      [] value.t = "str" ->
           EnsureText(Strip(value.s), ReplaceFirstBlank(ReplaceZ(Strip(value.s))))

\* _utc_now() (lines 32-34): the wall clock as a string; the clock's value
\* is counted in seconds from 2024-01-03T00:00:00 and shows microseconds.
ClockBase == 1704240000
UtcNow == IsoFormat((ClockBase + now) \div 86400, (ClockBase + now) % 86400, 250000)

\* ------------------------------------------------------------ normalisers
Empty == Str(<< >>)
Dash == <<"-">>

\* An upstream trade or position: the fields the identifiers and the times
\* are derived from, and quantity standing for the fields that are copied
\* or coerced one by one (_coerce_float raises nothing). A key that is
\* absent reads as None.
BlankRecord ==
    [isdict |-> TRUE, trade_id |-> NoneV, position_id |-> NoneV, id |-> NoneV,
     entry_oid |-> NoneV, model_id |-> NoneV, symbol |-> NoneV, entry_time |-> NoneV,
     exit_time |-> NoneV, entry_human_time |-> NoneV, quantity |-> NoneV,
     _account_timestamp |-> NoneV]

\* Lines 100-134: _normalize_trade(trade); ValueError when a time is a
\* number out of datetime's range.
TradeRecord(trade, entry_time, exit_time) ==
    IF entry_time.raised \/ exit_time.raised THEN Raised
    ELSE Returned(
           [id |-> ToStr(Or(Or(trade.trade_id, trade.id), Empty)),
            model_id |-> trade.model_id,
            symbol |-> trade.symbol,
            quantity |-> trade.quantity,
            entry_human_time |-> Or(trade.entry_human_time, trade.entry_time),
            entry_time |-> entry_time.value,
            exit_time |-> exit_time.value,
            display_time |-> Or(exit_time.value, entry_time.value),
            status |-> IF Truthy(exit_time.value) THEN "closed" ELSE "closed_pending",
            event |-> IF Truthy(exit_time.value) THEN "trade_closed" ELSE "trade_record"])
NormalizeTrade(trade) ==
    TradeRecord(trade, EnsureIso8601(trade.entry_time), EnsureIso8601(trade.exit_time))

\* Line 139: position.pop("_account_timestamp", None) takes the hint out of
\* the dict that was passed in.
PopHint(position) == [position EXCEPT !._account_timestamp = NoneV]

\* Lines 137-179: _normalize_position(position): what it returns or raises;
\* the clock is read when neither the entry time nor the hint gives a time.
\* Lines 147-152: the identifier: position_id, id, entry_oid, or the text
\* made of the model, the symbol and the entry time or its label.
Identifier(position, entry_time, entry_label) ==
    Or(Or(Or(position.position_id, position.id), position.entry_oid),
       Str(ToStr(position.model_id) \o Dash \o ToStr(position.symbol) \o Dash
           \o ToStr(Or(Or(entry_time, entry_label), Empty))))
PositionRecord(position, entry_label, entry_time, hinted) ==
    IF entry_time.raised THEN Raised
    ELSE IF ~Truthy(entry_time.value) /\ hinted.raised THEN Raised
    ELSE Returned(
           [id |-> ToStr(Identifier(position, entry_time.value, entry_label)),
            model_id |-> position.model_id,
            symbol |-> position.symbol,
            quantity |-> position.quantity,
            entry_human_time |-> entry_label,
            entry_time |-> entry_time.value,
            exit_time |-> NoneV,
            display_time |-> Or(Or(entry_time.value, hinted.value), Str(UtcNow)),
            status |-> "open",
            event |-> "position_open"])
NormalizePosition(position) ==
    PositionRecord(position,
                   Or(position.entry_human_time,
                      Or(position.entry_time, position._account_timestamp)),
                   EnsureIso8601(Or(position.entry_time, position._account_timestamp)),
                   EnsureIso8601(position._account_timestamp))

\* -------------------------------------------------------------- _sort_trades
\* Lines 185-189: sort_key(trade): (0, display_time) for a str, (1, "")
\* otherwise.
SortKey(trade) ==
    IF trade.display_time.t = "str" THEN <<0, trade.display_time.s>> ELSE <<1, << >> >>

\* k1 < k2 for two such tuples.
KeyLess(k1, k2) == k1[1] < k2[1] \/ (k1[1] = k2[1] /\ StrLess(k1[2], k2[2]))

\* Line 191: sorted(trades, key=sort_key, reverse=True): greatest key first,
\* records of equal keys in the order they came in.
InsertAt(done, x, at) == SubSeq(done, 1, at - 1) \o <<x>> \o SubSeq(done, at, Len(done))
InsertBefore(done, x, below) ==
    InsertAt(done, x, IF below = {} THEN Len(done) + 1
                      ELSE CHOOSE j \in below : \A o \in below : j <= o)
InsertSorted(done, x) ==
    InsertBefore(done, x, { j \in 1..Len(done) : KeyLess(SortKey(done[j]), SortKey(x)) })
RECURSIVE SortTrades(_)
SortTrades(trades) ==
    IF trades = << >> THEN << >>
    ELSE InsertSorted(SortTrades(SubSeq(trades, 1, Len(trades) - 1)), trades[Len(trades)])

\* ------------------------------------------------------------------ inputs
\* Calls made on one record (the functions are applied again and again).
MaxCalls == 2
\* Longest list handed to _sort_trades on its own.
MaxRecords == 3

\* Times as the upstream writes them.
Jan1 == <<"2", "0", "2", "4", "-", "0", "1", "-", "0", "1", "T", "0", "0", ":", "0", "0", ":", "0", "0", "Z">>
Jan2 == <<"2", "0", "2", "4", "-", "0", "1", "-", "0", "2", "T", "0", "0", ":", "0", "0", ":", "0", "0", "Z">>
Jan2Blank == <<"2", "0", "2", "4", "-", "0", "1", "-", "0", "2", " ", "0", "0", ":", "0", "0", ":", "0", "0">>
Jan2Plus3 == <<"2", "0", "2", "4", "-", "0", "1", "-", "0", "2", "T", "0", "3", ":", "0", "0", ":", "0", "0", "+", "0", "3", ":", "0", "0">>
Nov14 == <<"2", "0", "2", "3", "-", "1", "1", "-", "1", "4", "T", "2", "2", ":", "1", "3", ":", "2", "0", "Z">>
MillisText == <<"1", "7", "0", "0", "0", "0", "0", "0", "0", "0", "0", "0", "0">>
Unparsed == <<"n", "o", "o", "n">>

\* Numbers around the limits of the code: 1700000000000 and 1700000000 (the
\* same instant in milliseconds and in seconds), a millisecond value that
\* is no whole second, 10^12 and its neighbours, the last second of the
\* year 9999 and the second after it, and 0.
NumberValues ==
    { Num(1700000000, 0), Num(1700000, 0), Num(1700000000, 123), Num(1000000000, 0),
      Num(1000000000, 1), Num(999999999, 999), Num(253402300, 799), Num(253402300, 800),
      Num(0, 0) }

TimeValues ==
    NumberValues
    \cup { NoneV, Empty, Str(<<" ">>), Str(Jan1), Str(Jan2), Str(Jan2Blank), Str(Jan2Plus3),
           Str(MillisText), Str(Unparsed) }

\* Identifiers, models and symbols.
IdA == <<"A">>
IdB == <<"B">>
IdP1 == <<"P", "1">>
ModelM == <<"m">>
SymBTC == <<"B", "T", "C">>
SymETH == <<"E", "T", "H">>

\* Upstream trades handed to _normalize_trade: an id under either key or
\* under none, and the entry and exit times.
LabTrades ==
    { [BlankRecord EXCEPT !.trade_id = a, !.id = b, !.symbol = Str(SymBTC),
                          !.entry_time = t, !.exit_time = x] :
        a \in {NoneV, Str(IdA)}, b \in {NoneV, Str(IdB)},
        t \in {NoneV, Str(Jan1), Num(1700000000, 0), Num(999999999, 999)},
        x \in {NoneV, Str(Jan2)} }

\* Upstream positions handed to _normalize_position: with an id or
\* without, with an entry time or without, with an account timestamp
\* injected or without.
LabPositions ==
    { [BlankRecord EXCEPT !.position_id = a, !.entry_oid = b, !.model_id = Str(ModelM),
                          !.symbol = Str(SymBTC), !.entry_time = t,
                          !._account_timestamp = h] :
        a \in {NoneV, Str(IdP1)}, b \in {NoneV, Num(0, 7)},
        t \in {NoneV, Str(Jan1), Num(999999999, 999)},
        h \in {NoneV, Num(1700000, 0), Str(Jan2)} }

\* Normalised records with the display times _sort_trades meets.
SortRecord(id, time) ==
    [id |-> id, model_id |-> Str(ModelM), symbol |-> Str(SymBTC), quantity |-> NoneV,
     entry_human_time |-> time, entry_time |-> time, exit_time |-> NoneV,
     display_time |-> time, status |-> "closed_pending", event |-> "trade_record"]
SortRecords ==
    { SortRecord(IdA, Str(Jan2)), SortRecord(IdB, NoneV), SortRecord(IdP1, Str(Jan1)),
      SortRecord(ModelM, Str(Jan1)) }

\* ------------------------------------------------------- upstream payloads
\* Longest list in a /trades or /positions body, and in an /account-totals
\* body.
MaxEntries == 2
MaxAccounts == 1

\* int(os.getenv("TRADE_DISPLAY_LIMIT", "60")) and
\* int(os.getenv("TRADE_POSITIONS_LIMIT", "200")).
DefaultLimit == 60
DefaultPositionsLimit == 200

\* An entry that is no dict.
NonDict == [BlankRecord EXCEPT !.isdict = FALSE]
\* A number of seconds beyond the year 9999: fromtimestamp raises on it.
OutOfRange == Num(999999999, 999)
One == Num(0, 1)
Two == Num(0, 2)

\* Entries of the /trades list: a trade under each id key, one without an
\* id, one whose entry_time is out of range, and an entry that is no dict.
ApiTrades ==
    { [BlankRecord EXCEPT !.trade_id = Str(IdA), !.model_id = Str(ModelM),
                          !.symbol = Str(SymBTC), !.entry_time = Str(Jan1)],
      [BlankRecord EXCEPT !.id = Str(IdB), !.symbol = Str(SymETH), !.exit_time = Str(Jan2)],
      [BlankRecord EXCEPT !.symbol = Str(SymBTC), !.entry_time = Str(Jan1)],
      [BlankRecord EXCEPT !.id = Str(IdA), !.entry_time = OutOfRange],
      NonDict }

\* Entries of the /positions list: the position P1, a position without any
\* id (its id is made of model, symbol and entry time), one whose entry_time
\* is out of range, and an entry that is no dict.
ApiPositions ==
    { [BlankRecord EXCEPT !.position_id = Str(IdP1), !.model_id = Str(ModelM),
                          !.symbol = Str(SymBTC), !.entry_time = Str(Jan1),
                          !.quantity = One],
      [BlankRecord EXCEPT !.model_id = Str(ModelM), !.symbol = Str(SymETH),
                          !.entry_time = Str(Jan2), !.quantity = One],
      [BlankRecord EXCEPT !.position_id = Str(IdB), !.entry_time = OutOfRange],
      NonDict }

\* The "positions" mapping of an account entry, symbol by symbol: P1 again
\* with another quantity, and a position without id, symbol, model or time.
AccountP1 == <<Str(SymBTC), [BlankRecord EXCEPT !.position_id = Str(IdP1), !.quantity = Two]>>
AccountNew == <<Str(SymETH), [BlankRecord EXCEPT !.quantity = Two]>>
AccountMaps == { << >>, <<AccountP1>>, <<AccountNew>>, <<AccountP1, AccountNew>> }

\* Entries of the /account-totals list.
AccountEntries ==
    { [isdict |-> TRUE, model_id |-> Str(ModelM), timestamp |-> ts, positions |-> m] :
        ts \in {NoneV, Str(Jan2), OutOfRange}, m \in AccountMaps }
    \cup { [isdict |-> FALSE, model_id |-> NoneV, timestamp |-> NoneV, positions |-> << >>] }

\* What _fetch_json returns or raises: ok is false when it raises
\* RuntimeError; shape is the key the list is under, "list" for a body that
\* is a bare list, "other" for a dict without any of the keys.
Payloads(shapes, entries, n) ==
    { [ok |-> FALSE, shape |-> "other", entries |-> << >>] }
    \cup { [ok |-> TRUE, shape |-> "other", entries |-> << >>] }
    \cup { [ok |-> TRUE, shape |-> sh, entries |-> e] : sh \in shapes, e \in SeqsUpTo(entries, n) }

TradesPayloads == Payloads({"trades", "list"}, ApiTrades, MaxEntries)
PositionsPayloads == Payloads({"positions", "data", "list"}, ApiPositions, MaxEntries)
AccountPayloads == Payloads({"accountTotals", "accounts", "list"}, AccountEntries, MaxAccounts)

\* ------------------------------------------------- _collect_open_positions
\* positions_by_id[str(identifier)] = record: a dict keeps the place of a
\* key that is assigned again.
IdsOf(records) == { records[k].id : k \in 1..Len(records) }
Put(map, record) ==
    IF record.id \in IdsOf(map)
    THEN [k \in 1..Len(map) |-> IF map[k].id = record.id THEN record ELSE map[k]]
    ELSE Append(map, record)

\* Lines 258-264 over the first n entries: positions_by_id, and whether
\* _normalize_position has raised, which ends the loop.
PrimaryStep(before, entry, normalised) ==
    IF before.raised \/ ~entry.isdict THEN before
    ELSE IF normalised.raised THEN [before EXCEPT !.raised = TRUE]
    ELSE IF normalised.value.id # << >>
         THEN [before EXCEPT !.map = Put(@, normalised.value)]
    ELSE before
RECURSIVE PrimaryLoop(_, _)
PrimaryLoop(entries, n) ==
    IF n = 0 THEN [map |-> << >>, raised |-> FALSE]
    ELSE PrimaryStep(PrimaryLoop(entries, n - 1), entries[n], NormalizePosition(entries[n]))

\* Lines 250-268: positions_by_id and errors after the primary source. A
\* body that is a bare list has no get (AttributeError); an empty list
\* under its key is false, so that the dict itself is taken for the list.
PrimaryResult(payload, loop) ==
    IF ~payload.ok \/ payload.shape = "list"
    THEN [map |-> << >>, errors |-> <<"/positions -> exception">>]
    ELSE IF payload.shape = "other" \/ payload.entries = << >>
    THEN [map |-> << >>, errors |-> <<"Unexpected /positions response shape">>]
    ELSE [map |-> loop.map,
          errors |-> IF loop.raised THEN <<"/positions -> exception">> ELSE << >>]
CollectPrimary(payload) ==
    PrimaryResult(payload, PrimaryLoop(payload.entries, Len(payload.entries)))

\* Lines 219-223: pos.copy() with symbol, model_id and the account's
\* timestamp set where the position has none.
PosCopy(entry, pair) ==
    [pair[2] EXCEPT !.symbol = IF @ = NoneV THEN pair[1] ELSE @,
                    !.model_id = IF @ = NoneV THEN entry.model_id ELSE @,
                    !._account_timestamp = IF @ = NoneV THEN entry.timestamp ELSE @]

\* Lines 209-225: _extract_positions_from_account_entry over the first n
\* items of the mapping.
ExtractStep(before, pos, normalised) ==
    IF before.raised \/ ~pos.isdict THEN before
    ELSE IF normalised.raised THEN [before EXCEPT !.raised = TRUE]
    ELSE [before EXCEPT !.positions = Append(@, normalised.value)]
RECURSIVE ExtractPositions(_, _)
ExtractPositions(entry, n) ==
    IF n = 0 THEN [positions |-> << >>, raised |-> FALSE]
    ELSE ExtractStep(ExtractPositions(entry, n - 1), entry.positions[n][2],
                     NormalizePosition(PosCopy(entry, entry.positions[n])))

\* Lines 235-239 over the first n entries: _normalize_account formats the
\* entry's timestamp (and may raise), then the entry's positions are added.
AccountStep(before, entry, extracted) ==
    IF before.raised \/ ~entry.isdict THEN before
    ELSE IF EnsureIso8601(entry.timestamp).raised \/ extracted.raised
         THEN [before EXCEPT !.raised = TRUE]
    ELSE [before EXCEPT !.positions = @ \o extracted.positions]
RECURSIVE AccountLoop(_, _)
AccountLoop(entries, n) ==
    IF n = 0 THEN [positions |-> << >>, raised |-> FALSE]
    ELSE AccountStep(AccountLoop(entries, n - 1), entries[n],
                     ExtractPositions(entries[n], Len(entries[n].positions)))

\* Lines 228-242: the positions _collect_account_data returns; every
\* exception is caught, what was collected before it is returned.
AccountPositions(payload) ==
    IF ~payload.ok \/ payload.shape \in {"list", "other"} \/ payload.entries = << >>
    THEN << >>
    ELSE AccountLoop(payload.entries, Len(payload.entries)).positions

\* MergeFallback as it would be if the fallback replaced what is there.
RECURSIVE MergeFallbackOverwriting(_, _)
MergeFallbackOverwriting(map, fallback) ==
    IF fallback = << >> THEN map
    ELSE MergeFallbackOverwriting(Put(map, Head(fallback)), Tail(fallback))

\* Lines 271-274: a fallback position is entered when its id is not there.
RECURSIVE MergeFallback(_, _)
MergeFallback(map, fallback) ==
    IF fallback = << >> THEN map
    ELSE LET pos == Head(fallback)
         IN  MergeFallback(IF pos.id # << >> /\ pos.id \notin IdsOf(map)
                           THEN Append(map, pos) ELSE map,
                           Tail(fallback))

\* Lines 279-280: sorted and cut to max(POSITIONS_LIMIT, 1).
OpenPositions(map, limit) == Take(SortTrades(map), Max(limit, 1))

\* ------------------------------------------------------ the pace of the loop
\* A float: a finite number of seconds, inf or nan (float(os.getenv(...))
\* accepts "inf" and "nan").
Fin(n) == [t |-> "fin", v |-> n]
Inf == [t |-> "inf", v |-> 0]
NaN == [t |-> "nan", v |-> 0]

\* a > b for two floats: false whenever one of them is nan.
FloatGreater(a, b) ==
    /\ a.t # "nan" /\ b.t # "nan"
    /\ \/ a.t = "inf" /\ b.t = "fin"
       \/ a.t = "fin" /\ b.t = "fin" /\ a.v > b.v

\* max(a, b): a, unless b > a.
PyMax(a, b) == IF FloatGreater(b, a) THEN b ELSE a

\* a - elapsed, elapsed being finite.
FloatMinus(a, elapsed) == IF a.t = "fin" THEN Fin(a.v - elapsed) ELSE a

\* Line 27: self.interval_seconds = max(interval_seconds, 10.0).
IntervalSeconds(interval_seconds) == PyMax(interval_seconds, Fin(10))

\* Line 90: wait_seconds = max(self.interval_seconds - elapsed, 1.0).
WaitSeconds(interval_seconds, elapsed) == PyMax(FloatMinus(interval_seconds, elapsed), Fin(1))

\* Line 91: how long self._stop_event.wait(wait_seconds) blocks when the
\* event is not set meanwhile. Condition.wait blocks only "if timeout > 0",
\* which nan is not; a timeout no C time holds raises OverflowError, which
\* nothing in _run_loop catches.
EventWait(timeout) ==
    IF timeout.t = "inf" THEN Raised
    ELSE IF FloatGreater(timeout, Fin(0)) THEN Returned(timeout)
    ELSE Returned(Fin(0))

\* Lines 27 and 89-91: the interval of a poller configured with
\* arg.configured, and the pause after a cycle that took arg.elapsed.
Pace(interval, arg) ==
    [interval |-> interval,
     wait_seconds |-> WaitSeconds(interval, arg.elapsed),
     waited |-> EventWait(WaitSeconds(interval, arg.elapsed))]
RunLoopPace(arg) == Pace(IntervalSeconds(arg.configured), arg)

\* TRADE_POLL_INTERVAL_SECONDS as it may be set, and the seconds a cycle
\* may take (urlopen gives up after 30).
Configured == {Fin(-5), Fin(0), Fin(5), Fin(10), Fin(12), Fin(60), Inf, NaN}
Durations == {0, 1, 9, 10, 11, 30}

\* ------------------------------------------------------- functions applied
\* A record is taken and the functions are applied to it, once or more.
Given(fn, arg) ==
    /\ lab = NoLab
    /\ lab' = [fn |-> fn, arg |-> arg, outs |-> << >>]
    /\ UNCHANGED <<cache_limit, lock, stop_event, thread, created, cache, now, pc, loc,
                   snaps, alone, epoch, req, start_returned>>

TakeInput ==
    \/ \E v \in TimeValues : Given("_ensure_iso8601", v)
    \/ \E t \in LabTrades : Given("_normalize_trade", t)
    \/ \E p \in LabPositions : Given("_normalize_position", p)
    \/ \E l \in SeqsUpTo(SortRecords, MaxRecords) : Given("_sort_trades", l)
    \/ \E p \in PositionsPayloads : Given("/positions", p)
    \/ \E c \in Configured, e \in Durations :
          Given("_run_loop", [configured |-> c, elapsed |-> e])

\* The result of the function lab.fn on the record as it is now, and the
\* record as the call leaves it.
ResultOf(fn, arg) ==
    CASE fn = "_ensure_iso8601" -> EnsureIso8601(arg)
      [] fn = "_normalize_trade" -> NormalizeTrade(arg)
      [] fn = "_normalize_position" -> NormalizePosition(arg)
      [] fn = "_sort_trades" -> Returned(SortTrades(arg))
      [] fn = "/positions" -> Returned(CollectPrimary(arg))
      [] fn = "_run_loop" -> Returned(RunLoopPace(arg))
ArgAfter(fn, arg) == IF fn = "_normalize_position" THEN PopHint(arg) ELSE arg

Call ==
    /\ lab # NoLab
    /\ Len(lab.outs) < MaxCalls
    /\ lab' = [lab EXCEPT !.outs = Append(@, ResultOf(lab.fn, lab.arg)),
                          !.arg = ArgAfter(lab.fn, @)]
    /\ UNCHANGED <<cache_limit, lock, stop_event, thread, created, cache, now, pc, loc,
                   snaps, alone, epoch, req, start_returned>>

NextLab ==
    \/ TakeInput
    \/ Call
    \/ Tick

SpecLab == Init /\ [][NextLab]_vars

\* ------------------------------------------------------------------ do_GET
\* What the poller's variables are to a step of the stateless function.
poller == <<cache_limit, lock, stop_event, thread, created, cache, pc, loc, snaps, alone,
            epoch, start_returned>>

\* Line 306: [_normalize_trade(tr) for tr in trades_raw if isinstance(tr,
\* dict)]: the records, or the exception of the first that raises.
JoinTrades(entry, first, rest) ==
    IF ~entry.isdict THEN rest
    ELSE IF first.raised \/ rest.raised THEN Raised
    ELSE Returned(<<first.value>> \o rest.value)
RECURSIVE NormalizeTrades(_)
NormalizeTrades(entries) ==
    IF entries = << >> THEN Returned(<< >>)
    ELSE JoinTrades(Head(entries), NormalizeTrade(Head(entries)),
                    NormalizeTrades(Tail(entries)))

\* FilterTrades as it would be without the test of the id.
FilterTradesKeepingAll(trades) == trades

\* Line 307: [tr for tr in normalised_trades if tr["id"]].
FilterTrades(trades) == SelectSeq(trades, LAMBDA tr : tr.id # << >>)

\* Lines 291-299: a request arrives; limit is the query parameter, or
\* DEFAULT_LIMIT without one. POSITIONS_LIMIT is what the environment of
\* this invocation sets.
DoGet(limit, positions_limit) ==
    /\ req.pc = "idle"
    /\ req' = [NoReq EXCEPT !.pc = "trades", !.limit = limit,
                            !.positions_limit = positions_limit]
    /\ UNCHANGED <<poller, now, lab>>

\* Lines 301-309 and 334-338: /trades is fetched. A fetch that raises, a
\* body without a "trades" list, or a trade whose normalisation raises goes
\* to the except clause: 502.
AfterTrades(payload, normalised) ==
    IF ~payload.ok \/ payload.shape # "trades"
    THEN [req EXCEPT !.pc = "sent", !.status = 502, !.failed = @ \cup {"/trades"}]
    ELSE IF normalised.raised
    THEN [req EXCEPT !.pc = "sent", !.status = 502]
    ELSE [req EXCEPT !.pc = "positions",
                     !.dropped = Len(normalised.value) - Len(FilterTrades(normalised.value)),
                     !.limited_trades =
                         Take(SortTrades(FilterTrades(normalised.value)), Max(req.limit, 1))]
GetTrades(payload) ==
    /\ req.pc = "trades"
    /\ req' = AfterTrades(payload, NormalizeTrades(payload.entries))
    /\ UNCHANGED <<poller, now, lab>>

\* Lines 250-268: the primary source of positions.
AfterPositions(payload, got) ==
    [req EXCEPT !.pc = "account",
                !.positions_by_id = got.map,
                !.primary = got.map,
                !.errors = got.errors,
                !.failed = IF payload.ok THEN @ ELSE @ \cup {"/positions"}]
GetPositions(payload) ==
    /\ req.pc = "positions"
    /\ req' = AfterPositions(payload, CollectPrimary(payload))
    /\ UNCHANGED <<poller, now, lab>>

\* Lines 270-274: fallback_positions, and positions_by_id with them entered.
AfterAccount(payload, fallback) ==
    [req EXCEPT !.pc = "respond",
                !.account_payload = payload,
                !.fallback_positions = fallback,
                !.positions_by_id = MergeFallback(@, fallback),
                !.failed = IF payload.ok THEN @ ELSE @ \cup {"/account-totals"}]

\* GetAccount as it would be if an error of the primary source made the
\* function leave the fallback out.
GetAccountUnlessErrors(payload) ==
    /\ req.pc = "account"
    /\ req' = AfterAccount(payload,
                           IF req.errors # << >> THEN << >> ELSE AccountPositions(payload))
    /\ UNCHANGED <<poller, now, lab>>

\* Lines 270-274: the fallback source, and its positions entered.
GetAccount(payload) ==
    /\ req.pc = "account"
    /\ req' = AfterAccount(payload, AccountPositions(payload))
    /\ UNCHANGED <<poller, now, lab>>

\* Lines 276-333: the positions are sorted and cut, joined to the trades and
\* sorted again; 200.
Response(open_positions) ==
    [req EXCEPT !.pc = "sent",
                !.open_positions = open_positions,
                !.status = 200,
                !.trades = SortTrades(req.limited_trades \o open_positions)]
SendResponse ==
    /\ req.pc = "respond"
    /\ req' = Response(OpenPositions(req.positions_by_id, req.positions_limit))
    /\ UNCHANGED <<poller, now, lab>>

\* do_GET returns.
EndRequest ==
    /\ req.pc = "sent"
    /\ req' = NoReq
    /\ UNCHANGED <<poller, now, lab>>

\* One request after another, for every answer of the three endpoints.
NextGet ==
    \/ \E l \in {DefaultLimit, 0}, p \in {DefaultPositionsLimit, 1} : DoGet(l, p)
    \/ \E payload \in TradesPayloads : GetTrades(payload)
    \/ \E payload \in PositionsPayloads : GetPositions(payload)
    \/ \E payload \in AccountPayloads : GetAccount(payload)
    \/ SendResponse
    \/ EndRequest
    \/ Tick

SpecGet == Init /\ [][NextGet]_vars

\* ------------------------------------------------- both programs together
\* The poller and the stateless function side by side, each fed from an
\* upstream whose trades carry an id or none: for the poller the empty
\* list, lists of one or two such trades, or a failure.
IdResponses ==
    ResponsesOf({ t \in RawTrades : t.isdict /\ t.trade_id = "" }, {"Failed to reach"}, MaxTrades)
IdTradesPayloads ==
    Payloads({"trades"}, { t \in ApiTrades : t.isdict /\ t.id = NoneV }, MaxEntries)
IdPositionsPayloads ==
    Payloads({"positions"}, { p \in ApiPositions : p.isdict /\ p.entry_time = Str(Jan2) }, 1)
IdAccountPayloads ==
    Payloads({"accountTotals"}, { e \in AccountEntries : e.timestamp = NoneV /\ Len(e.positions) = 1 }, 1)

NextBoth ==
    \/ Start("S1")
    \/ \E r \in Runners : RunLoop(r)
    \/ \E r \in Runners : Cycle(r, IdResponses)
    \/ DoGet(DefaultLimit, DefaultPositionsLimit)
    \/ \E payload \in IdTradesPayloads : GetTrades(payload)
    \/ \E payload \in IdPositionsPayloads : GetPositions(payload)
    \/ \E payload \in IdAccountPayloads : GetAccount(payload)
    \/ SendResponse
    \/ EndRequest

SpecBoth == Init /\ [][NextBoth]_vars

\* ----------------------------------------------------------------- claims
\* The trades of the cycle of c that the loop did not skip, and those among
\* them whose id the cache does not know; none before the first success.
CycleTrades(c) == Summaries(c, loc[c].trades, Len(loc[c].trades))
FirstSeen(c) ==
    IF initialized THEN SelectSeq(CycleTrades(c), LAMBDA x : x.id \notin known)
    ELSE << >>

\* A cycle no other cycle overlapped has just assigned new_trades (line 129)
\* and has not yet replaced the id set and the flag (lines 130-131), which
\* are those the most recent earlier successful cycle recorded.
Publishing(c) == pc[c] = "p130" /\ alone[c]

\* C1 as claimed: after a successful non-overlapping cycle new_trades is
\* exactly the cycle's trades whose id the most recent earlier successful
\* cycle had not recorded, and it is empty after the first successful cycle.
C1_NewTradesAreAllFirstSeen ==
    \A c \in Executors : Publishing(c) => new.items = FirstSeen(c)

\* C1 amended: new_trades is the first cache_limit of the cycle's trades
\* (those with an id) whose id the most recent earlier successful cycle had
\* not recorded, in upstream order, and it is empty after the first
\* successful cycle.
C1_NewTradesAreFirstSeenUpToLimit ==
    \A c \in Executors : Publishing(c) => new.items = Take(FirstSeen(c), cache_limit)

\* A later cycle publishes some of its trades as new and not the others.
C1_Witness ==
    \E c \in Executors :
        /\ Publishing(c)
        /\ initialized
        /\ new.items # << >>
        /\ Len(new.items) < Len(CycleTrades(c))

\* C5: whenever the cache can be read, every record of new_trades is one of
\* the records of recent_trades.
C5_NewTradesWithinRecent ==
    lock = "free" =>
        \A k \in 1..Len(new.items) :
            \E j \in 1..Len(recent.items) : recent.items[j] = new.items[k]


\* What a snapshot shows, identities aside.
SnapView(sn) ==
    [initialized |-> sn.initialized, last_poll_started |-> sn.last_poll_started,
     last_poll_completed |-> sn.last_poll_completed, last_error |-> sn.last_error,
     recent_trades |-> Content(sn.recent_trades), new_trades |-> Content(sn.new_trades)]

\* A view with last_poll_started left out of the comparison.
WithoutStarted(view) == [view EXCEPT !.last_poll_started = NoTime]

\* The reader rd gets its snapshot in this step.
Snapshotted(rd) == ~snaps[rd].taken /\ snaps'[rd].taken

\* C2 as claimed: every snapshot shows all six fields as the last finished
\* cycle left them (entirely as before the running cycle began, or entirely
\* as after it finished).
C2_SnapshotShowsNoRunningCycle ==
    [][\A rd \in Readers : Snapshotted(rd) => SnapView(snaps'[rd]) = epoch]_vars

\* C2 amended: every snapshot shows initialized, last_poll_completed,
\* last_error, recent_trades and new_trades entirely as before the running
\* cycle began or entirely as after it finished; last_poll_started alone is
\* published when the cycle begins, so a snapshot taken during a cycle shows
\* the new last_poll_started beside the old values of the other fields.
C2_SnapshotShowsWholePublishes ==
    [][\A rd \in Readers :
          Snapshotted(rd) =>
              WithoutStarted(SnapView(snaps'[rd])) = WithoutStarted(epoch)]_vars

\* A snapshot taken while the first cycle is running.
C2_Witness ==
    \E rd \in Readers :
        /\ snaps[rd].taken
        /\ snaps[rd].last_poll_started # NoTime
        /\ snaps[rd].last_poll_completed = NoTime

\* The cycle of c has raised: its fetch, the parsing or the shape test failed.
Failed(c) == loc[c].exc # None

\* The lines 127-133, where a cycle replaces the cache's data.
PublishPcs == {"p128", "p129", "p130", "p131", "p132", "p133"}

\* The thread c takes this step.
StepOf(c) == pc'[c] # pc[c] \/ loc'[c] # loc[c]

\* C3: a cycle that fails, of the background loop or of trigger_once, never
\* reaches the lines that replace the data, and no step it takes from its
\* beginning to its end changes initialized, the known-id set, recent_trades
\* or new_trades.
C3_FailedCycleKeepsLastGoodState ==
    [][\A c \in Executors :
          /\ (StepOf(c) /\ pc[c] \notin PublishPcs)
                => UNCHANGED <<initialized, known, recent, new>>
          /\ (Failed(c) \/ Failed(c)')
                => (pc[c] \notin PublishPcs /\ pc'[c] \notin PublishPcs)]_vars

\* A background cycle and a triggered cycle have both failed after an
\* earlier cycle filled the cache.
C3_Witness ==
    /\ \E r \in Runners : Failed(r) /\ pc[r] = "done"
    /\ Failed(Trigger) /\ pc[Trigger] = "raise"
    /\ initialized
    /\ recent.items # << >>

\* The failed cycle of c ends in this step: the handler of _run_loop is
\* through, or the exception has reached trigger_once.
FailedCycleEnds(c) ==
    /\ pc[c] \notin {"done", "raise"}
    /\ pc'[c] \in {"done", "raise"}
    /\ Failed(c)'

\* C4 as claimed: when a failed cycle ends, of the background loop or of
\* trigger_once, last_error is non-null and last_poll_completed is not
\* earlier than last_poll_started.
C4_EveryFailureIsRecorded ==
    [][\A c \in Executors :
          FailedCycleEnds(c) =>
              (last_error' # None /\ last_completed' >= last_started')]_vars

\* C4 amended: when a failed cycle of the background loop ends, last_error
\* is the exception's message and last_poll_completed is not earlier than
\* last_poll_started; a failed trigger_once cycle raises to its caller and
\* writes neither last_error nor last_poll_completed.
C4_BackgroundFailureIsRecorded ==
    [][/\ \A r \in Runners :
             FailedCycleEnds(r) =>
                 (last_error' = loc[r].exc /\ last_error' # None
                  /\ last_completed' >= last_started')
       /\ (StepOf(Trigger) /\ (Failed(Trigger) \/ Failed(Trigger)'))
             => UNCHANGED <<last_error, last_completed>>]_vars

\* A failed background cycle has ended, the clock having advanced while it
\* ran.
C4_Witness ==
    \E r \in Runners :
        /\ pc[r] = "done"
        /\ Failed(r)
        /\ last_error = loc[r].exc
        /\ last_completed > loc[r].started_at

\* The places of the code where a thread holds the lock between two steps.
LockedPcs == {"p129", "p130", "p131", "p132", "p133", "h88"}

\* C8: the lock is held only by a thread between its assignments to the
\* cache, never by a thread waiting on the upstream, so that a snapshot
\* waits for a few assignments at most.
C8_LockNeverHeldDuringFetch ==
    /\ lock # "free" => pc[lock] \in LockedPcs
    /\ \A c \in Executors : pc[c] = "fetch" => lock # c

\* trigger_once has returned a snapshot taken while a background cycle
\* waits on the upstream: it shows that cycle's start and no completion
\* after it.
C8_Witness ==
    /\ pc[Trigger] = "respond"
    /\ snaps[Trigger].taken
    /\ \E r \in Runners :
          /\ pc[r] = "fetch"
          /\ snaps[Trigger].last_poll_started = loc[r].started_at
          /\ snaps[Trigger].last_poll_completed < loc[r].started_at

\* A cycle of c has succeeded: it is past line 131.
Succeeded(c) ==
    \/ pc[c] \in {"p132", "p133", "snap"}
    \/ (pc[c] = "done" /\ ~Failed(c))

\* C10: the cache starts uninitialized and empty; initialized becomes true
\* only by the publish of a cycle that succeeds, and every such publish
\* makes it true; no step of a failed cycle changes it; once true it is
\* never false again.
C10_InitializedLifecycle ==
    /\ (~initialized /\ recent.items = << >> /\ new.items = << >>)
    /\ [][/\ initialized => initialized'
          /\ (~initialized /\ initialized')
                => \E c \in Executors : pc[c] = "p131" /\ pc'[c] = "p132"
          /\ \A c \in Executors :
                (StepOf(c) /\ (Failed(c) \/ Failed(c)')) => UNCHANGED initialized]_vars
    /\ [](\A c \in Executors : Succeeded(c) => initialized)

\* The cache is initialized and shows the error of a later failed cycle.
C10_Witness == initialized /\ last_error # None /\ last_completed > NoTime


\* C6: at most one background runner is alive at any time.
C6_AtMostOneRunner == Cardinality({ r \in Runners : IsAlive(r) }) <= 1

\* C7: once the event is set no runner passes the test of line 81 (it
\* begins no iteration), a runner ends nowhere but at line 81 or 91 (the
\* iteration it is in, fetch included, runs to its end and publishes), and
\* every runner alive ends unless a start() clears the event; stop()'s join
\* having timed out changes none of it.
C7_StopEndsRunnerAfterCycle ==
    /\ [][\A r \in Runners :
             /\ (stop_event /\ pc[r] = "loop") => pc'[r] # "begin"
             /\ (pc[r] # "off" /\ pc'[r] = "off")
                   => (stop_event /\ pc[r] \in {"loop", "wait"})]_vars
    /\ \A r \in Runners : (stop_event /\ IsAlive(r)) ~> (~IsAlive(r) \/ ~stop_event)

\* stop() has returned, its join timed out, while a runner is still inside
\* its fetch.
C7_Witness ==
    /\ stop_event
    /\ pc[Stopper] = "idle"
    /\ \E r \in Runners : pc[r] = "fetch"

\* The objects a holder of the two lists can reach.
ListRefs(l) == {l.ref} \cup { l.items[k].ref : k \in 1..Len(l.items) }
SnapRefs(sn) == ListRefs(sn.recent_trades) \cup ListRefs(sn.new_trades)

\* C9: a snapshot shares no object with the cache or with another snapshot,
\* and a snapshot that is held changes only in a step that changes neither
\* the cache, nor any thread's place in a cycle, nor another snapshot: the
\* holder's own modification.
C9_SnapshotIsIndependentCopy ==
    /\ [](\A rd \in Readers :
             snaps[rd].taken =>
                 /\ SnapRefs(snaps[rd]) \cap (ListRefs(recent) \cup ListRefs(new)) = {}
                 /\ \A o \in Readers \ {rd} :
                       snaps[o].taken => SnapRefs(snaps[rd]) \cap SnapRefs(snaps[o]) = {})
    /\ [][\A rd \in Readers :
             (snaps[rd].taken /\ snaps'[rd].taken /\ snaps'[rd] # snaps[rd])
                 => /\ UNCHANGED <<cache, pc, loc>>
                    /\ \A o \in Readers \ {rd} : snaps'[o] = snaps[o]]_vars

\* One caller has modified its snapshot while another snapshot of the same
\* trade and the cache still show the trade as it was, and a later cycle has
\* since replaced the cache's lists.
C9_Witness ==
    /\ snaps["G1"].taken /\ snaps["G2"].taken
    /\ snaps["G1"].recent_trades.items # << >>
    /\ snaps["G1"].recent_trades.items[1].symbol = "EDITED"
    /\ snaps["G2"].recent_trades.items # << >>
    /\ snaps["G2"].recent_trades.items[1].symbol = "BTC"
    /\ snaps["G2"].new_trades.items = << >>
    /\ new.items # << >>
    /\ new.items[1].symbol = "BTC"

Results(fn) == IF lab.fn = fn THEN { lab.outs[k] : k \in 1..Len(lab.outs) } ELSE {}
Dated(record) == record.display_time.t = "str"
DisplayTimes(records) == [k \in 1..Len(records) |-> records[k].display_time]

\* C12: what _sort_trades returns holds the records it was given, those with
\* a display_time in descending order of it, and every record without one
\* after all those with one; display_times [2024-01-02, null, 2024-01-01]
\* come out as [2024-01-02, 2024-01-01, null].
C12_UndatedRecordsSortLast ==
    \A r \in Results("_sort_trades") :
        LET out == r.value
        IN  /\ Len(out) = Len(lab.arg)
            /\ \A x \in SortRecords :
                  Cardinality({ k \in 1..Len(out) : out[k] = x })
                      = Cardinality({ k \in 1..Len(out) : lab.arg[k] = x })
            /\ \A i, j \in 1..Len(out) :
                  i < j =>
                      /\ Dated(out[j]) => Dated(out[i])
                      /\ (Dated(out[i]) /\ Dated(out[j]))
                            => ~StrLess(out[i].display_time.s, out[j].display_time.s)
            /\ DisplayTimes(lab.arg) = <<Str(Jan2), NoneV, Str(Jan1)>>
                  => DisplayTimes(out) = <<Str(Jan2), Str(Jan1), NoneV>>

\* C13: the calls of _normalize_trade or _normalize_position made on one
\* raw record all return the same normalised record.
C13_NormalizingTwiceGivesTheSame ==
    \A fn \in {"_normalize_trade", "_normalize_position"} :
        \A r1, r2 \in Results(fn) : r1 = r2

\* C20: for a number above 10^12, _ensure_iso8601 returns what the number
\* divided by 1000 gives as epoch seconds (as a whole second, what it
\* returns for that number of seconds itself); a number up to 10^12 is
\* taken as epoch seconds; 1700000000000 gives "2023-11-14T22:13:20Z".
C20_MillisecondsAboveTenToTheTwelfth ==
    \A r \in Results("_ensure_iso8601") :
        lab.arg.t = "num" =>
            LET hi == lab.arg.hi
                lo == lab.arg.lo
                above == hi > 1000000000 \/ (hi = 1000000000 /\ lo > 0)
            IN  /\ above => r = FromTimestamp(hi \div 1000, hi % 1000, lo * 1000)
                /\ (above /\ lo = 0) => r = EnsureIso8601(Num(hi \div 1000, hi % 1000))
                /\ ~above => r = FromTimestamp(hi, lo, 0)
                /\ (hi = 1700000000 /\ lo = 0) => r = Returned(Str(Nov14))

\* _ensure_iso8601 has returned the time of a number of milliseconds that
\* is no whole second.
C20_Witness ==
    /\ lab.fn = "_ensure_iso8601"
    /\ lab.arg = Num(1700000000, 123)
    /\ lab.outs # << >>
    /\ ~lab.outs[1].raised
    /\ lab.outs[1].value.s # Nov14
    /\ SubSeq(lab.outs[1].value.s, 1, 19) = SubSeq(Nov14, 1, 19)

\* The ids of a list of the poller's summaries or of normalised records.
PollerIds(list) == [k \in 1..Len(list.items) |-> list.items[k].id]
RecordIds(records) == [k \in 1..Len(records) |-> records[k].id]
Distinct(ids) == \A i, j \in 1..Len(ids) : i # j => ids[i] # ids[j]
Answered == req.pc = "sent" /\ req.status = 200

\* C14: every record of every collection has a non-empty id: the poller's
\* recent_trades, new_trades and known ids, the cycle's own lists, and the
\* stateless function's trades, its merged positions and its response.
C14_EveryRecordHasAnId ==
    /\ \A k \in 1..Len(recent.items) : recent.items[k].id # ""
    /\ \A k \in 1..Len(new.items) : new.items[k].id # ""
    /\ "" \notin known
    /\ \A c \in Executors : \A k \in 1..Len(loc[c].new_trades) : loc[c].new_trades[k].id # ""
    /\ \A k \in 1..Len(req.limited_trades) : req.limited_trades[k].id # << >>
    /\ \A k \in 1..Len(req.positions_by_id) : req.positions_by_id[k].id # << >>
    /\ \A k \in 1..Len(req.trades) : req.trades[k].id # << >>

\* A cycle has published a list that leaves out a trade without id, and a
\* response has left out another and holds a position whose id was made up.
C14_Witness ==
    /\ recent.items # << >>
    /\ \E r \in Runners :
          /\ pc[r] = "done" /\ ~Failed(r)
          /\ Len(recent.items) < Len(loc[r].trades)
    /\ Answered
    /\ req.dropped > 0
    /\ Len(req.trades) > Len(req.open_positions)
    /\ \E k \in 1..Len(req.trades) : Len(req.trades[k].id) > 2

\* C15: no two records of a response of the stateless function share an id,
\* and no two records of the poller's recent_trades do.
C15_IdsAreUnique ==
    /\ Answered => Distinct(RecordIds(req.trades))
    /\ lock = "free" => Distinct(PollerIds(recent))

\* C16: after reconciliation every record the primary source gave is in the
\* merged set unchanged, every other record of the merged set is a fallback
\* record whose id the primary did not give, and so it is in the positions
\* of the response.
C16_PrimaryIsNeverOverwritten ==
    req.pc \in {"respond", "sent"} =>
        /\ \A k \in 1..Len(req.primary) : req.positions_by_id[k] = req.primary[k]
        /\ \A k \in 1..Len(req.positions_by_id) :
              k > Len(req.primary) =>
                  /\ req.positions_by_id[k].id \notin IdsOf(req.primary)
                  /\ \E j \in 1..Len(req.fallback_positions) :
                        req.fallback_positions[j] = req.positions_by_id[k]
        /\ \A k \in 1..Len(req.open_positions) :
              req.open_positions[k].id \in IdsOf(req.primary)
                  => \E j \in 1..Len(req.primary) : req.primary[j] = req.open_positions[k]

\* Both sources have given P1, with different quantities, and the response
\* holds the primary's.
C16_Witness ==
    /\ Answered
    /\ \E j \in 1..Len(req.primary), k \in 1..Len(req.fallback_positions) :
          /\ req.primary[j].id = IdP1
          /\ req.fallback_positions[k].id = IdP1
          /\ req.primary[j].quantity # req.fallback_positions[k].quantity
          /\ \E o \in 1..Len(req.open_positions) : req.open_positions[o] = req.primary[j]


\* The ids the two sources gave, and the positions an /account-totals body
\* holds when nothing in it makes the fallback stop early.
SourceIds == IdsOf(req.primary) \cup IdsOf(req.fallback_positions)
RECURSIVE CountPositions(_)
CountPositions(entries) ==
    IF entries = << >> THEN 0
    ELSE Len(Head(entries).positions) + CountPositions(Tail(entries))
CleanAccounts(payload) ==
    /\ payload.ok
    /\ payload.shape \in {"accountTotals", "accounts"}
    /\ \A k \in 1..Len(payload.entries) :
          payload.entries[k].isdict /\ payload.entries[k].timestamp # OutOfRange

\* C17 as the claim states it: whatever fetch fails, the positions returned
\* are exactly the positions of the sources that succeeded, once per id, and
\* a fetch that failed gives none.
C17_ReturnsAllOfSucceededSources ==
    Answered =>
        /\ IdsOf(req.open_positions) = SourceIds
        /\ Distinct(RecordIds(req.open_positions))
        /\ "/positions" \in req.failed => req.primary = << >>
        /\ "/account-totals" \in req.failed => req.fallback_positions = << >>

\* C17: whatever fetch of the two fails, the request is answered with 200;
\* a fetch that failed gives no position; the fallback gives every position
\* of its body whether or not the primary failed; the positions returned
\* are positions of the two sources, once per id, the most recent first,
\* and they are all of them up to max(POSITIONS_LIMIT, 1), the ones left
\* out being none more recent than the ones kept.
C17_ReturnsMostRecentOfSucceededSources ==
    /\ req.pc = "sent" /\ req.failed \cap {"/positions", "/account-totals"} # {}
          => req.status = 200
    /\ Answered =>
          /\ "/positions" \in req.failed => req.primary = << >>
          /\ "/account-totals" \in req.failed => req.fallback_positions = << >>
          /\ CleanAccounts(req.account_payload)
                => Len(req.fallback_positions) = CountPositions(req.account_payload.entries)
          /\ IdsOf(req.open_positions) \subseteq SourceIds
          /\ Distinct(RecordIds(req.open_positions))
          /\ Len(req.open_positions)
                = Min(Cardinality(SourceIds), Max(req.positions_limit, 1))
          /\ \A k \in 1..(Len(req.open_positions) - 1) :
                ~KeyLess(SortKey(req.open_positions[k]), SortKey(req.open_positions[k + 1]))
          /\ \A k \in 1..Len(req.open_positions), j \in 1..Len(req.positions_by_id) :
                req.positions_by_id[j].id \notin IdsOf(req.open_positions)
                    => ~KeyLess(SortKey(req.open_positions[k]), SortKey(req.positions_by_id[j]))

\* The fetch of /positions has failed, the fallback has given two positions,
\* and the response holds exactly those two.
C17_Witness ==
    /\ Answered
    /\ "/positions" \in req.failed
    /\ Len(req.fallback_positions) = 2
    /\ Len(req.open_positions) = 2
    /\ IdsOf(req.open_positions) = IdsOf(req.fallback_positions)


\* C18: a request is answered with 502 exactly when the fetch of /trades
\* has failed (it raised, or the body holds no list of trades); whatever
\* the two fetches of positions do, the answer is 200 then, and it holds
\* every one of the limited trades.
C18_OnlyAFailedTradesFetchGives502 ==
    req.pc = "sent" =>
        /\ req.status = 502 <=> "/trades" \in req.failed
        /\ req.status = 200 =>
              \A k \in 1..Len(req.limited_trades) :
                  \E j \in 1..Len(req.trades) : req.trades[j] = req.limited_trades[k]


\* The entries of a /positions body that are positions whose normalisation
\* does not raise, and the ids they are known under.
Wellformed(entries) ==
    \A k \in 1..Len(entries) : entries[k].isdict => ~NormalizePosition(entries[k]).raised
EntryIds(entries) ==
    { NormalizePosition(entries[k]).value.id : k \in { j \in 1..Len(entries) : entries[j].isdict } }

\* C19: a /positions body {"positions": [...]}, {"data": [...]} or a bare
\* list gives the primary set of the positions it holds, the same for each
\* of the three shapes, and no error is recorded for it.
C19_EveryDocumentedShapeIsAccepted ==
    \A r \in Results("/positions") :
        (/\ lab.arg.ok
         /\ lab.arg.shape \in {"positions", "data", "list"}
         /\ Wellformed(lab.arg.entries))
            => /\ r.value.errors = << >>
               /\ IdsOf(r.value.map) = EntryIds(lab.arg.entries)


\* C22: cache_limit is at least 1; whenever the cache can be read,
\* recent_trades and new_trades hold at most cache_limit records each and
\* every id of recent_trades is in the known-id set; recent_trades changes
\* only where a cycle publishes, and what a successful cycle leaves in it
\* is the first cache_limit of the cycle's trades that carry an id, in
\* upstream order.
C22_CacheWithinLimit ==
    /\ [](/\ cache_limit >= 1
          /\ lock = "free" =>
                /\ Len(recent.items) <= cache_limit
                /\ Len(new.items) <= cache_limit
                /\ \A k \in 1..Len(recent.items) : recent.items[k].id \in known)
    /\ [][/\ recent' # recent => \E c \in Executors : pc[c] = "p128"
          /\ \A c \in Executors :
                (pc[c] = "p133" /\ pc'[c] # "p133") =>
                    LET ids == IncomingIds(loc[c].trades, Len(loc[c].trades))
                    IN  /\ Len(recent'.items) = Min(Len(ids), cache_limit)
                        /\ \A k \in 1..Len(recent'.items) : recent'.items[k].id = ids[k]]_vars

\* A cycle that saw more trades than cache_limit has published, and
\* recent_trades holds cache_limit of them.
C22_Witness ==
    /\ lock = "free"
    /\ initialized
    /\ Len(recent.items) = cache_limit
    /\ \E r \in Runners :
          /\ pc[r] = "done" /\ ~Failed(r)
          /\ Len(CycleTrades(r)) > cache_limit


\* C23: whatever cycles overlap, the new_trades a cycle publishes (line
\* 129) are those of its trades whose id is absent from the known-id set
\* its publish replaces (line 130), up to cache_limit of them, and none if
\* the cache was not initialized before this publish.
C23_NewTradesAgainstReplacedSet ==
    \A c \in Executors :
        pc[c] = "p130" => new.items = Take(FirstSeen(c), cache_limit)


\* a >= b for two floats.
FloatGeq(a, b) == FloatGreater(a, b) \/ (a.t # "nan" /\ a = b)

\* C21: whatever interval is configured, the poller's interval is at least
\* 10 seconds, and after a cycle the runner, unless stop() sets the event,
\* pauses for max(interval - elapsed, 1) seconds: at least 1 second and at
\* most the interval, however long the cycle took.
C21_PauseBetweenOneAndInterval ==
    \A r \in Results("_run_loop") :
        /\ FloatGeq(r.value.interval, Fin(10))
        /\ ~r.value.waited.raised
        /\ FloatGeq(r.value.waited.value, Fin(1))
        /\ FloatGeq(r.value.interval, r.value.waited.value)
        /\ r.value.interval.t = "fin" =>
              r.value.waited.value = Fin(Max(r.value.interval.v - lab.arg.elapsed, 1))


\* A runner begins a cycle (line 82).
BeginsCycle == \E r \in Runners : pc[r] = "begin"

\* C24: as long as start() has returned and stop() has not been called
\* since, a background runner is alive, and it begins a cycle again and
\* again.
C24_StartedPollerKeepsRunning ==
    /\ [](start_returned => \E r \in Runners : IsAlive(r))
    /\ [](start_returned => <>(~start_returned \/ BeginsCycle))

====
